---- MODULE Spec2Model ----
(***************************************************************************)
(* Suite2pData (data/imagedatatools/suite2pdata/suite2pdata.py): the       *)
(* accessor object over the per-plane output of the segmentation pipeline. *)
(* State: the current plane, the per-plane ROI selection, the shuffle      *)
(* flag and the two lazily filled per-plane trace caches.  Every property  *)
(* and method of the class is one action; `call` and `ret` hold the last   *)
(* operation a caller made and what it got back (value or exception).      *)
(* Indexing follows Python: a list or array index i of a container of      *)
(* length n is legal iff -n <= i < n, a negative one counting from the     *)
(* end; anything else raises IndexError.  np.int is the builtin int, as in  *)
(* the numpy releases the class was written for; the files of a plane      *)
(* directory exist and agree on the number of ROIs.                        *)
(*                                                                         *)
(* Five specifications share the actions: SpecSelection drives plane and   *)
(* selection handling with every argument, SpecTraces has the trace        *)
(* accessors under hand-made selections, SpecRepeat lets the caller keep a *)
(* returned matrix and compare later reads with it, SpecCaches follows the *)
(* filling of the caches, SpecAccessors calls every accessor under plane   *)
(* changes and a few selections.                                           *)
(***************************************************************************)
EXTENDS Integers, Sequences, FiniteSets, TLC

\* ---- bounds of the model ------------------------------------------------
MaxPlanes == 2      \* plane directories found on disk: 0..MaxPlanes
MaxRois == 2        \* ROIs of the smallest plane
NTime == 2          \* time samples (columns) of a trace file
MaxLoads == 2       \* the file-read counter saturates here

\* ---- the directory snapshot (input of the constructor) ------------------
\* Plane directories hold MaxRois ROIs (even d) or one more (odd d).
NRoisOnDisk(d) == MaxRois + (d % 2)

\* iscell.npy of plane directory d: one row <<flag, probability>> per ROI;
\* probabilities in tenths.  Flags of directory 0: 1,0,1,...
IscellFile(d) ==
    [r \in 1..NRoisOnDisk(d) |-> << (d + r) % 2, (9 + 3 * (r - 1) + d) % 10 >>]

\* F.npy and spks.npy of plane directory d: [nROI x nTime], all values distinct.
FFile(d) ==
    [r \in 1..NRoisOnDisk(d) |-> [t \in 1..NTime |-> 100 * d + 10 * (r - 1) + t]]

SpksFile(d) ==
    [r \in 1..NRoisOnDisk(d) |-> [t \in 1..NTime |-> 500 + 100 * d + 10 * (r - 1) + t]]

\* stat.npy of plane directory d: the "med" field <<row, column>> of each ROI.
StatFile(d) ==
    [r \in 1..NRoisOnDisk(d) |-> << 20 + 10 * d + r, 40 + 10 * d + 2 * r >>]

\* ops1.npy: one options record per plane, entry d + 1 that of plane number
\* d; the mean image is a one-pixel image here, telling the planes apart.
OpsFile(n) ==
    [k \in 1..n |-> [meanImg |-> << << 700 + (k - 1) >> >>, aspect |-> 3 + (k - 1)]]

\* ops1.npy lists the planes the pipeline processed; glob finds the
\* directories of all of them, or only those of the first n (the others
\* moved away since).
OpsSnapshots(n) == { OpsFile(k) : k \in n..MaxPlanes }

\* glob.glob yields the plane directories in an order the file system
\* chooses: ascending or descending by plane number here.
GlobOrders(n) ==
    { [p \in 0..(n - 1) |-> p], [p \in 0..(n - 1) |-> n - 1 - p] }

\* np.argwhere(mask).ravel(): the 0-based positions where mask is true, ascending.
RECURSIVE ArgwhereFrom(_, _)
ArgwhereFrom(mask, r) ==
    IF r > Len(mask) THEN << >>
    ELSE (IF mask[r] THEN << r - 1 >> ELSE << >>) \o ArgwhereFrom(mask, r + 1)
\* (variant: positions counted from one)
ArgwhereOneBased(mask) ==
    [k \in 1..Len(ArgwhereFrom(mask, 1)) |-> ArgwhereFrom(mask, 1)[k] + 1]
Argwhere(mask) == ArgwhereFrom(mask, 1)

\* ---- Python / numpy indexing --------------------------------------------
InRange(i, n) == -n <= i /\ i < n
PyIndex(i, n) == IF i >= 0 THEN i ELSE i + n

\* m[ids, :] : gather the rows of matrix m at ids (numpy integer-array index).
AllInRange(ids, n) == \A k \in 1..Len(ids) : InRange(ids[k], n)
\* the rows of m at plain 0-based positions
TakeRowsAt(m, rows) == [k \in 1..Len(rows) |-> m[rows[k] + 1]]
\* (variant: ids used as a row mask, m[np.isin(range(n), ids)])
TakeRowsMasked(m, ids) ==
    TakeRowsAt(m, ArgwhereFrom([r \in 1..Len(m) |->
        \E k \in 1..Len(ids) : PyIndex(ids[k], Len(m)) = r - 1], 1))
TakeRows(m, ids) == [k \in 1..Len(ids) |-> m[PyIndex(ids[k], Len(m)) + 1]]

\* (variant: a boolean mask of the ids, every element once, in ROI order)
TakeElemsMasked(v, ids) ==
    LET hit == ArgwhereFrom([r \in 1..Len(v) |->
                   \E k \in 1..Len(ids) : PyIndex(ids[k], Len(v)) = r - 1], 1)
    IN  [k \in 1..Len(hit) |-> v[hit[k] + 1]]

\* v[ids] for a vector
TakeElems(v, ids) == [k \in 1..Len(ids) |-> v[PyIndex(ids[k], Len(v)) + 1]]

\* np.random.shuffle(row) reorders the row by a permutation the generator
\* draws: the row is left as it is or rotated by one sample (for two
\* samples these are all the permutations there are).
\* (variant: the samples drawn with replacement, np.random.choice)
ResampleDraws(n) == { [t \in 1..n |-> (((t - 1) * k) % n) + 1] : k \in { 0, 1 } }
ShuffleDraws(n) == { [t \in 1..n |-> ((t - 1 + k) % n) + 1] : k \in { 0, 1 } }
RowPermutations(row) ==
    { [t \in 1..Len(row) |-> row[f[t]]] : f \in ShuffleDraws(Len(row)) }

\* "for ix in range(m.shape[0]): np.random.shuffle(m[ix,:])": all matrices
\* obtained from m by shuffling every row on its own.
RECURSIVE RowShuffles(_)
RowShuffles(m) ==
    IF m = << >> THEN { << >> }
    ELSE { << h >> \o t : h \in RowPermutations(Head(m)), t \in RowShuffles(Tail(m)) }

\* the members of a set of integers in ascending order
RECURSIVE SortedSeq(_)
SortedSeq(S) ==
    IF S = {} THEN << >>
    ELSE LET lo == CHOOSE x \in S : \A y \in S : x <= y
         IN  << lo >> \o SortedSeq(S \ { lo })

\* a.ravel(): a 1-D array as it is, a 2-D array row after row.
RECURSIVE Flatten(_)
Flatten(rows) == IF rows = << >> THEN << >> ELSE Head(rows) \o Flatten(Tail(rows))
Ravel(a) == IF a.ndim = 1 THEN a.v ELSE Flatten(a.v)

Array1(v) == [ndim |-> 1, v |-> v]
\* np.argwhere of a 1-D mask is a [k x 1] array of positions.
ArgwhereArray(mask) ==
    [ndim |-> 2, v |-> [k \in 1..Len(Argwhere(mask)) |-> << Argwhere(mask)[k] >>]]

\* ---- what a call hands back ----------------------------------------------
Return(v) == [err |-> "none", val |-> v]
Raise(e) == [err |-> e, val |-> << >>]
None == Return(<< >>)

\* ---- state ----------------------------------------------------------------
VARIABLES
    nplanes,        \* self._nplanes
    plane_paths,    \* self._plane_paths: index -> plane directory on disk
    ops,            \* self._ops: the records of ops1.npy
    plane,          \* self._plane
    shuffletraces,  \* self._shuffletraces
    selected_id,    \* self._selected_id: index -> 1-D array of ROI ids
    Fcache,         \* self._F: index -> None or the matrix of F.npy
    spikescache,    \* self._spikes: index -> None or the matrix of spks.npy
    loads,          \* how often np.load read each plane's F.npy / spks.npy
    call,           \* the operation last called, with its argument
    ret,            \* what it returned or raised
    kept,           \* a matrix the caller held on to, and where it came from
    manual          \* index -> the ids last assigned by hand, while in force

vars == << nplanes, plane_paths, ops, plane, shuffletraces, selected_id,
           Fcache, spikescache, loads, call, ret, kept, manual >>

Planes == 0..(nplanes - 1)
Unloaded == [loaded |-> FALSE, data |-> << >>]
NothingKept ==
    [op |-> "none", plane |-> 0, ids |-> << >>, val |-> << >>, shuffled |-> FALSE]
NotManual == [has |-> FALSE, ids |-> << >>]

\* The files under self._plane_paths[p]
nrois_total(p) == NRoisOnDisk(plane_paths[p])
iscell(p) == IscellFile(plane_paths[p])
FOnDisk(p) == FFile(plane_paths[p])
SpksOnDisk(p) == SpksFile(plane_paths[p])
\* self._y[p], self._x[p]: "med"[0] and "med"[1] of each ROI of stat.npy
\* (whole pixels, which dtype=np.int leaves as they are)
roi_y(p) == [r \in 1..nrois_total(p) |-> StatFile(plane_paths[p])[r][1]]
roi_x(p) == [r \in 1..nrois_total(p) |-> StatFile(plane_paths[p])[r][2]]

\* ---- __init__ -------------------------------------------------------------
Init ==
    /\ nplanes \in 0..MaxPlanes
    /\ plane_paths \in GlobOrders(nplanes)
    /\ ops \in OpsSnapshots(nplanes)
    /\ selected_id = [p \in Planes |-> [k \in 1..nrois_total(p) |-> k - 1]]
    /\ plane = 0
    /\ shuffletraces = FALSE
    /\ spikescache = [p \in Planes |-> Unloaded]
    /\ Fcache = [p \in Planes |-> Unloaded]
    /\ loads = [kind \in {"F", "spikes"} |-> [p \in Planes |-> 0]]
    /\ call = [op |-> "__init__", arg |-> << >>]
    /\ ret = None
    /\ kept = NothingKept
    /\ manual = [p \in Planes |-> NotManual]

\* ---- inputs callers pass ----------------------------------------------------
PlaneArgs == (-1)..MaxPlanes
SelectionArgs ==
    { << 1, 0 >>, << 0, 0 >>, << -1 >>, << MaxRois >>, << -(MaxRois + 1), 0 >> }
Selectors == { "iscell", "isnotcell", "iscell_p_larger_than",
               "iscell_p_smaller_than", "other" }
\* threshold=None is << >>, threshold=t is << t >> (t in tenths)
NoThreshold == << >>
Thresholds == { NoThreshold, << 2 >>, << 5 >> }
SelectorsWithThreshold == { "iscell_p_larger_than", "iscell_p_smaller_than" }
\* reordered with a duplicate and a negative id; too large for a small
\* plane; too negative for a small plane, together with the largest id
TraceSelectionArgs == { << -1, 0, 0 >>, << 0, MaxRois >>, << -(MaxRois + 1) >> }
RepeatSelectionArgs == { << -1, 0, 0 >> }
\* an id below the first row of a small plane: the gather fails there
CacheSelectionArgs == { << -(MaxRois + 1) >> }

\* ---- plane (setter) ---------------------------------------------------------
PlaneSet(plane_nr) ==
    /\ plane' = plane_nr
    /\ call' = [op |-> "plane.setter", arg |-> << plane_nr >>]
    /\ ret' = None
    /\ UNCHANGED << nplanes, plane_paths, ops, shuffletraces, selected_id,
                    Fcache, spikescache, loads, kept, manual >>

\* ---- shuffletraces (setter) -------------------------------------------------
ShuffletracesSet(shuffle_setting) ==
    /\ shuffletraces' = shuffle_setting
    /\ call' = [op |-> "shuffletraces.setter", arg |-> << shuffle_setting >>]
    /\ ret' = None
    /\ UNCHANGED << nplanes, plane_paths, ops, plane, selected_id,
                    Fcache, spikescache, loads, kept, manual >>

\* ---- neurons (getter and setter) --------------------------------------------
\* np.array(self._selected_id[self._plane], dtype=np.int).ravel()
NeuronsValue ==
    IF InRange(plane, nplanes)
    THEN Return(Ravel(Array1(selected_id[PyIndex(plane, nplanes)])))
    ELSE Raise("IndexError")

NeuronsGet ==
    /\ call' = [op |-> "neurons", arg |-> << >>]
    /\ ret' = NeuronsValue
    /\ UNCHANGED << nplanes, plane_paths, ops, plane, shuffletraces, selected_id,
                    Fcache, spikescache, loads, kept, manual >>

\* (variant: one selection shared by all planes)
StoreSelectionEveryPlane(ids, p, selection) == [q \in DOMAIN ids |-> Ravel(selection)]

\* (variant: np.unique(selection), sorted and without duplicates)
StoreSelectionUnique(ids, p, selection) ==
    [ids EXCEPT ![p] = SortedSeq({ Ravel(selection)[k] : k \in 1..Len(Ravel(selection)) })]

\* self._selected_id[self._plane] = selection.ravel()
StoreSelection(ids, p, selection) == [ids EXCEPT ![p] = Ravel(selection)]

NeuronsAssign(selection) ==
    IF InRange(plane, nplanes)
    THEN /\ selected_id' = StoreSelection(selected_id, PyIndex(plane, nplanes), selection)
         /\ ret' = None
    ELSE /\ selected_id' = selected_id
         /\ ret' = Raise("IndexError")

\* The caller's note of an assignment by hand: made when the setter returns,
\* dropped when select_neurons replaces the selection of that plane.
NoteManual(selection) ==
    manual' = IF ret'.err = "none"
              THEN [manual EXCEPT ![PyIndex(plane, nplanes)] =
                                      [has |-> TRUE, ids |-> selection]]
              ELSE manual
DropManual ==
    manual' = IF InRange(plane, nplanes)
                 /\ selected_id' # selected_id
              THEN [manual EXCEPT ![PyIndex(plane, nplanes)] = NotManual]
              ELSE manual

NeuronsSet(selection) ==
    /\ call' = [op |-> "neurons.setter", arg |-> selection]
    /\ NeuronsAssign(Array1(selection))
    /\ NoteManual(selection)
    /\ UNCHANGED << nplanes, plane_paths, ops, plane, shuffletraces,
                    Fcache, spikescache, loads, kept >>

\* ---- select_neurons ---------------------------------------------------------
\* self._iscell[self._plane][:,0]==1 and the three other comparisons
\* (variant: the probability column compared instead of the flag column)
IscellMaskWrongColumn(table) == [r \in 1..Len(table) |-> table[r][2] = 1]
IscellMask(table) == [r \in 1..Len(table) |-> table[r][1] = 1]
IsnotcellMask(table) == [r \in 1..Len(table) |-> table[r][1] = 0]
LargerOrEqualMask(table, t) == [r \in 1..Len(table) |-> table[r][2] >= t]
LargerMask(table, t) == [r \in 1..Len(table) |-> table[r][2] > t]
SmallerMask(table, t) == [r \in 1..Len(table) |-> table[r][2] < t]

KnownSelectors == { "iscell", "isnotcell", "iscell_p_larger_than",
                    "iscell_p_smaller_than" }
NeedsThreshold(selector) == selector \in SelectorsWithThreshold

SelectorMask(selector, threshold, table) ==
    CASE selector = "iscell" -> IscellMask(table)
      [] selector = "isnotcell" -> IsnotcellMask(table)
      [] selector = "iscell_p_larger_than" -> LargerMask(table, threshold[1])
      [] selector = "iscell_p_smaller_than" -> SmallerMask(table, threshold[1])

\* (variant: None ordered below every number, as Python 2 compares)
SelectNeuronsNoneIsLowest(selector, threshold) ==
    /\ call' = [op |-> "select_neurons", arg |-> << selector, threshold >>]
    /\ IF selector \notin KnownSelectors
       THEN /\ ret' = None
            /\ selected_id' = selected_id
       ELSE IF ~InRange(plane, nplanes)
       THEN /\ ret' = Raise("IndexError")
            /\ selected_id' = selected_id
       ELSE NeuronsAssign(ArgwhereArray(
                SelectorMask(selector,
                             IF threshold = NoThreshold THEN << -1 >> ELSE threshold,
                             iscell(PyIndex(plane, nplanes)))))
    /\ DropManual
    /\ UNCHANGED << nplanes, plane_paths, ops, plane, shuffletraces,
                    Fcache, spikescache, loads, kept >>

\* (variant: a selector that is none of the four is refused)
SelectNeuronsStrict(selector, threshold) ==
    /\ call' = [op |-> "select_neurons", arg |-> << selector, threshold >>]
    /\ IF selector \notin KnownSelectors
       THEN /\ ret' = Raise("ValueError")
            /\ selected_id' = selected_id
       ELSE IF ~InRange(plane, nplanes)
       THEN /\ ret' = Raise("IndexError")
            /\ selected_id' = selected_id
       ELSE IF NeedsThreshold(selector) /\ threshold = NoThreshold
       THEN /\ ret' = Raise("TypeError")
            /\ selected_id' = selected_id
       ELSE NeuronsAssign(ArgwhereArray(
                SelectorMask(selector, threshold, iscell(PyIndex(plane, nplanes)))))
    /\ DropManual
    /\ UNCHANGED << nplanes, plane_paths, ops, plane, shuffletraces,
                    Fcache, spikescache, loads, kept >>

\* "if isinstance(selector,str)" and the four "if selector == ..." tests, none
\* with an else
SelectNeurons(selector, threshold) ==
    /\ call' = [op |-> "select_neurons", arg |-> << selector, threshold >>]
    /\ IF selector \notin KnownSelectors
       THEN /\ ret' = None
            /\ selected_id' = selected_id
       ELSE IF ~InRange(plane, nplanes)
       THEN /\ ret' = Raise("IndexError")
            /\ selected_id' = selected_id
       ELSE IF NeedsThreshold(selector) /\ threshold = NoThreshold
       THEN /\ ret' = Raise("TypeError")
            /\ selected_id' = selected_id
       ELSE NeuronsAssign(ArgwhereArray(
                SelectorMask(selector, threshold, iscell(PyIndex(plane, nplanes)))))
    /\ DropManual
    /\ UNCHANGED << nplanes, plane_paths, ops, plane, shuffletraces,
                    Fcache, spikescache, loads, kept >>

\* ---- F and spikes -----------------------------------------------------------
\* (variant: the None test dropped, the file read on every access)
NeedsLoadAlways(entry) == TRUE

\* "if self._F[self._plane] is None"
NeedsLoad(entry) == ~entry.loaded

\* (variant: the file read put into every plane's entry)
PopulateCacheEveryPlane(cache, p, file, ids) ==
    IF ~cache[p].loaded
    THEN [q \in DOMAIN cache |-> [loaded |-> TRUE, data |-> file]]
    ELSE cache

\* (variant: only the selected rows cached)
PopulateCacheSelected(cache, p, file, ids) ==
    IF ~cache[p].loaded /\ AllInRange(ids, Len(file))
    THEN [cache EXCEPT ![p] = [loaded |-> TRUE, data |-> TakeRows(file, ids)]]
    ELSE IF ~cache[p].loaded
    THEN [cache EXCEPT ![p] = [loaded |-> TRUE, data |-> file]]
    ELSE cache

\* self._F[self._plane] = np.load(filename): the whole file, whatever is selected
PopulateCache(cache, p, file, ids) ==
    IF NeedsLoad(cache[p])
    THEN [cache EXCEPT ![p] = [loaded |-> TRUE, data |-> file]]
    ELSE cache

CountLoad(cnt, kind, p, entry) ==
    IF NeedsLoad(entry)
    THEN [cnt EXCEPT ![kind][p] = IF @ < MaxLoads THEN @ + 1 ELSE @]
    ELSE cnt

\* (variant: ids out of bounds skipped instead of refused)
GatherSkipping(m, ids) ==
    Return(TakeRows(m, SelectSeq(ids, LAMBDA i : InRange(i, Len(m)))))

\* np.array(matrix[ self._selected_id[self._plane], : ])
Gather(m, ids) ==
    IF AllInRange(ids, Len(m)) THEN Return(TakeRows(m, ids)) ELSE Raise("IndexError")

\* (variant: the flag not consulted)
ShuffleAlways(flag) == TRUE

\* "if self.shuffletraces is True"
ShuffleRequested(flag) == flag = TRUE

\* the matrices the accessor can return once the rows are gathered
Outcomes(gathered, flag) ==
    IF gathered.err = "none" /\ ShuffleRequested(flag)
    THEN { Return(s) : s \in RowShuffles(gathered.val) }
    ELSE { gathered }

\* print("Warning: ... data is shuffled"): the caller marks the kept matrix
\* once a later access has been shuffled.
NoteShuffled ==
    kept' = IF kept.op # "none" /\ ret'.err = "none" /\ ShuffleRequested(shuffletraces)
            THEN [kept EXCEPT !.shuffled = TRUE]
            ELSE kept

F ==
    /\ call' = [op |-> "F", arg |-> << >>]
    /\ IF InRange(plane, nplanes)
       THEN LET p == PyIndex(plane, nplanes)
                filled == PopulateCache(Fcache, p, FOnDisk(p), selected_id[p])
            IN  /\ Fcache' = filled
                /\ loads' = CountLoad(loads, "F", p, Fcache[p])
                /\ ret' \in Outcomes(Gather(filled[p].data, selected_id[p]),
                                     shuffletraces)
       ELSE /\ ret' = Raise("IndexError")
            /\ UNCHANGED << Fcache, loads >>
    /\ NoteShuffled
    /\ UNCHANGED << nplanes, plane_paths, ops, plane, shuffletraces, selected_id,
                    spikescache, manual >>

spikes ==
    /\ call' = [op |-> "spikes", arg |-> << >>]
    /\ IF InRange(plane, nplanes)
       THEN LET p == PyIndex(plane, nplanes)
                filled == PopulateCache(spikescache, p, SpksOnDisk(p), selected_id[p])
            IN  /\ spikescache' = filled
                /\ loads' = CountLoad(loads, "spikes", p, spikescache[p])
                /\ ret' \in Outcomes(Gather(filled[p].data, selected_id[p]),
                                     shuffletraces)
       ELSE /\ ret' = Raise("IndexError")
            /\ UNCHANGED << spikescache, loads >>
    /\ NoteShuffled
    /\ UNCHANGED << nplanes, plane_paths, ops, plane, shuffletraces, selected_id,
                    Fcache, manual >>

\* ---- image, aspect_ratio, nrois, x, y ----------------------------------------
\* self._ops[self._plane][field]
OpsField(field) ==
    IF InRange(plane, Len(ops))
    THEN Return(ops[PyIndex(plane, Len(ops)) + 1][field])
    ELSE Raise("IndexError")

image ==
    /\ call' = [op |-> "image", arg |-> << >>]
    /\ ret' = OpsField("meanImg")
    /\ UNCHANGED << nplanes, plane_paths, ops, plane, shuffletraces, selected_id,
                    Fcache, spikescache, loads, kept, manual >>

aspect_ratio ==
    /\ call' = [op |-> "aspect_ratio", arg |-> << >>]
    /\ ret' = OpsField("aspect")
    /\ UNCHANGED << nplanes, plane_paths, ops, plane, shuffletraces, selected_id,
                    Fcache, spikescache, loads, kept, manual >>

\* int(self._selected_id[self._plane].shape[0])
NroisValue ==
    IF InRange(plane, nplanes)
    THEN Return(Len(selected_id[PyIndex(plane, nplanes)]))
    ELSE Raise("IndexError")

nrois ==
    /\ call' = [op |-> "nrois", arg |-> << >>]
    /\ ret' = NroisValue
    /\ UNCHANGED << nplanes, plane_paths, ops, plane, shuffletraces, selected_id,
                    Fcache, spikescache, loads, kept, manual >>

\* np.array(coords[self._plane][ self._selected_id[self._plane] ], dtype=np.int)
Coords(axis, p) == IF axis = "x" THEN roi_x(p) ELSE roi_y(p)
CoordsValue(axis) ==
    IF InRange(plane, nplanes)
    THEN LET p == PyIndex(plane, nplanes)
         IN  IF AllInRange(selected_id[p], Len(Coords(axis, p)))
             THEN Return(TakeElems(Coords(axis, p), selected_id[p]))
             ELSE Raise("IndexError")
    ELSE Raise("IndexError")

x ==
    /\ call' = [op |-> "x", arg |-> << >>]
    /\ ret' = CoordsValue("x")
    /\ UNCHANGED << nplanes, plane_paths, ops, plane, shuffletraces, selected_id,
                    Fcache, spikescache, loads, kept, manual >>

y ==
    /\ call' = [op |-> "y", arg |-> << >>]
    /\ ret' = CoordsValue("y")
    /\ UNCHANGED << nplanes, plane_paths, ops, plane, shuffletraces, selected_id,
                    Fcache, spikescache, loads, kept, manual >>

\* ---- the caller -------------------------------------------------------------
\* The caller holds on to the matrix an unshuffled F or spikes just returned,
\* noting the plane and the selection it was read with.
Keep ==
    /\ call.op \in { "F", "spikes" }
    /\ ret.err = "none"
    /\ shuffletraces = FALSE
    /\ kept' = [op |-> call.op, plane |-> PyIndex(plane, nplanes),
                ids |-> selected_id[PyIndex(plane, nplanes)], val |-> ret.val,
                shuffled |-> FALSE]
    /\ UNCHANGED << nplanes, plane_paths, ops, plane, shuffletraces, selected_id,
                    Fcache, spikescache, loads, call, ret, manual >>

\* ---- the object in use ------------------------------------------------------
\* Selection and plane handling, with every argument.
NextSelection ==
    \/ \E plane_nr \in PlaneArgs : PlaneSet(plane_nr)
    \/ NeuronsGet
    \/ \E selection \in SelectionArgs : NeuronsSet(selection)
    \/ \E selector \in Selectors \ SelectorsWithThreshold :
           SelectNeurons(selector, NoThreshold)
    \/ \E selector \in SelectorsWithThreshold, threshold \in Thresholds :
           SelectNeurons(selector, threshold)

SpecSelection == Init /\ [][NextSelection]_vars

\* Trace access under plane changes, shuffling and hand-made selections.
NextTraces ==
    \/ \E plane_nr \in PlaneArgs : PlaneSet(plane_nr)
    \/ \E shuffle_setting \in BOOLEAN : ShuffletracesSet(shuffle_setting)
    \/ \E selection \in TraceSelectionArgs : NeuronsSet(selection)
    \/ \E selector \in Selectors \ KnownSelectors : SelectNeurons(selector, NoThreshold)
    \/ F
    \/ spikes

SpecTraces == Init /\ [][NextTraces]_vars

\* Repeated trace access, the caller comparing what it gets with what it kept.
NextRepeat ==
    \/ \E plane_nr \in PlaneArgs : PlaneSet(plane_nr)
    \/ \E shuffle_setting \in BOOLEAN : ShuffletracesSet(shuffle_setting)
    \/ \E selection \in RepeatSelectionArgs : NeuronsSet(selection)
    \/ F
    \/ spikes
    \/ Keep

SpecRepeat == Init /\ [][NextRepeat]_vars

\* The trace accessors under plane changes, with reads that fail after the
\* file was loaded.
NextCaches ==
    \/ \E plane_nr \in PlaneArgs : PlaneSet(plane_nr)
    \/ \E shuffle_setting \in BOOLEAN : ShuffletracesSet(shuffle_setting)
    \/ \E selection \in CacheSelectionArgs : NeuronsSet(selection)
    \/ F
    \/ spikes

SpecCaches == Init /\ [][NextCaches]_vars

\* Every accessor, under plane changes and flag or hand-made selections.
NextAccessors ==
    \/ \E plane_nr \in PlaneArgs : PlaneSet(plane_nr)
    \/ \E selection \in RepeatSelectionArgs : NeuronsSet(selection)
    \/ \E selector \in { "iscell", "isnotcell" } : SelectNeurons(selector, NoThreshold)
    \/ NeuronsGet
    \/ nrois
    \/ x
    \/ y
    \/ image
    \/ aspect_ratio
    \/ F
    \/ spikes

SpecAccessors == Init /\ [][NextAccessors]_vars

\* ---- what the properties speak about --------------------------------------
ValidPlane == InRange(plane, nplanes)
current == PyIndex(plane, nplanes)
TraceCall == call.op \in { "F", "spikes" }
\* the file on disk behind the accessor last called
FileOf(op, p) == IF op = "F" THEN FFile(plane_paths[p]) ELSE SpksFile(plane_paths[p])

\* C1: a populated cache entry of either kind is the whole matrix of that
\* plane's trace file, whatever was selected or shuffled when it was read
\* and whatever has been read since.
C1_CacheIsWholeFile ==
    \A p \in Planes :
        /\ Fcache[p].loaded => Fcache[p].data = FFile(plane_paths[p])
        /\ spikescache[p].loaded => spikescache[p].data = SpksFile(plane_paths[p])

\* A shuffled read of a hand-made selection that came back in another order
\* than the file's, from a cache that is filled.
C1_Witness ==
    /\ TraceCall /\ ret.err = "none" /\ shuffletraces = TRUE /\ ValidPlane
    /\ selected_id[current] = << -1, 0, 0 >>
    /\ ret.val # TakeRows(FileOf(call.op, current), selected_id[current])
    /\ Fcache[current].loaded /\ spikescache[current].loaded

\* C2: np.load reads each plane's F.npy and each plane's spks.npy at most
\* once, however often and in whatever state the accessors are called.
C2_LoadedAtMostOnce ==
    \A p \in Planes : loads["F"][p] <= 1 /\ loads["spikes"][p] <= 1

\* A later call of the accessor whose result the caller kept, on the same
\* plane, after a shuffled access: the file was read once.
C2_Witness ==
    /\ kept.op # "none" /\ kept.shuffled /\ call.op = kept.op
    /\ ValidPlane /\ current = kept.plane /\ plane # kept.plane
    /\ selected_id[current] # kept.ids
    /\ loads[call.op][current] = 1

\* C3: with shuffletraces False, a call of F (of spikes) on the plane and
\* with the selection of an earlier unshuffled call returns the matrix the
\* earlier call returned, shuffled accesses in between or not.
C3_RepeatedReadIsEqual ==
    ( /\ kept.op # "none" /\ call.op = kept.op /\ ret.err = "none"
      /\ shuffletraces = FALSE
      /\ ValidPlane /\ current = kept.plane
      /\ selected_id[current] = kept.ids )
    => ret.val = kept.val

\* The second unshuffled call, a shuffled access having been made since the
\* first one's matrix was kept.
C3_Witness ==
    /\ kept.op # "none" /\ kept.shuffled /\ call.op = kept.op /\ ret.err = "none"
    /\ shuffletraces = FALSE
    /\ ValidPlane /\ current = kept.plane
    /\ selected_id[current] = kept.ids /\ kept.ids = << -1, 0, 0 >>
    /\ ret.val = kept.val

\* C4: with shuffletraces False, the matrix F or spikes returns has one row
\* per selected id, row i being the row of the plane's file that the i-th
\* selected id names (counted from the end when negative), duplicates and
\* order kept.
C4_RowsFollowSelection ==
    ( TraceCall /\ ret.err = "none" /\ shuffletraces = FALSE )
    => LET ids == selected_id[current]
           file == FileOf(call.op, current)
       IN  /\ Len(ret.val) = Len(ids)
           /\ \A i \in 1..Len(ids) :
                  /\ ids[i] >= 0 => ret.val[i] = file[ids[i] + 1]
                  /\ ids[i] < 0 => ret.val[i] = file[Len(file) + ids[i] + 1]
           /\ \A i \in 1..Len(ids) : Len(ret.val[i]) = NTime

\* An unshuffled read of a reordered selection with a duplicate, on a plane
\* with more than one ROI.
C4_Witness ==
    /\ TraceCall /\ ret.err = "none" /\ shuffletraces = FALSE
    /\ selected_id[current] = << -1, 0, 0 >>
    /\ nrois_total(current) >= 2
    /\ ret.val[1] # ret.val[2] /\ ret.val[2] = ret.val[3]

\* ---- plane and selection ----------------------------------------------------
SelectedValid(p) ==
    \A k \in 1..Len(selected_id[p]) :
        0 <= selected_id[p][k] /\ selected_id[p][k] < nrois_total(p)
Selected(selector) ==
    /\ call.op = "select_neurons" /\ call.arg[1] = selector /\ ret.err = "none"
\* the value the neurons getter computes on plane p
NeuronsAt(p) == Ravel(Array1(selected_id[p]))

\* C5: the plane setter, given an index < 0 or >= nplanes, raises an index
\* error and leaves the current plane as it was; only 0 <= index < nplanes
\* is stored.
C5_SetterRefusesBadIndex ==
    [][ ( /\ call'.op = "plane.setter"
          /\ ~(0 <= call'.arg[1] /\ call'.arg[1] < nplanes) )
        => ( ret'.err = "IndexError" /\ plane' = plane ) ]_vars

\* C6: with at least one plane, the current plane is a valid plane index in
\* every state.
C6_PlaneAlwaysValid ==
    nplanes > 0 => ( 0 <= plane /\ plane < nplanes )

\* C7 as claimed: every selected id of every plane is a valid ROI index of
\* that plane, in every state.
C7_SelectedAlwaysValid == \A p \in Planes : SelectedValid(p)

\* C7: the selections are valid after construction; a select_neurons that
\* selects leaves the current plane's selection valid; and the neurons
\* setter, on the current plane, is the only operation after which a
\* selection that was valid no longer is.
C7_OnlySetterBreaksValidity ==
    /\ \A p \in Planes : SelectedValid(p)
    /\ [](\A selector \in KnownSelectors :
              Selected(selector) => SelectedValid(current))
    /\ [][ \A p \in Planes :
               ( SelectedValid(p) /\ ~SelectedValid(p)' )
               => ( call'.op = "neurons.setter" /\ p = current' ) ]_vars

\* select_neurons has put a valid selection in the place of an invalid one
\* set by hand, another plane still holding an invalid one.
C7_Witness ==
    /\ Selected("isnotcell") /\ ValidPlane
    /\ SelectedValid(current) /\ selected_id[current] # << >>
    /\ \E q \in Planes : q # current /\ ~SelectedValid(q)

\* C8 as claimed: any selected id outside 0..n-1, negative ones included,
\* makes F and spikes raise an index error.
C8_AnyIdOutside0ToNRaises ==
    ( /\ TraceCall /\ ValidPlane
      /\ \E k \in 1..Len(selected_id[current]) :
             selected_id[current][k] \notin 0..(nrois_total(current) - 1) )
    => ret.err = "IndexError"

\* C8: F and spikes raise an index error and return no matrix exactly when
\* some selected id i has i >= n or i < -n, n the plane's ROI count; the
\* cache is filled by then.  Ids -n..-1 are served, counted from the end.
C8_OutOfBoundsIdRaises ==
    ( TraceCall /\ ValidPlane )
    => /\ ( \E k \in 1..Len(selected_id[current]) :
                \/ selected_id[current][k] >= nrois_total(current)
                \/ selected_id[current][k] < -nrois_total(current) )
          <=> ret = Raise("IndexError")
       /\ IF call.op = "F" THEN Fcache[current].loaded
                           ELSE spikescache[current].loaded

\* A read refused for an id below -n, the file having been loaded.
C8_Witness ==
    /\ TraceCall /\ ValidPlane /\ ret = Raise("IndexError")
    /\ selected_id[current] = << -(MaxRois + 1) >>
    /\ loads[call.op][current] = 1

\* C9: the ids handed to the neurons setter are what the getter returns for
\* the plane that was current then, in the same order and with the same
\* duplicates, until select_neurons replaces that plane's selection.
C9_GetReturnsWhatWasSet ==
    /\ \A p \in Planes : manual[p].has => NeuronsAt(p) = manual[p].ids
    /\ ( call.op = "neurons" /\ ret.err = "none" /\ manual[current].has )
       => ret.val = manual[current].ids

\* The getter returning ids with a duplicate set by hand on this plane,
\* another plane holding other ids set by hand.
C9_Witness ==
    /\ call.op = "neurons" /\ ret = Return(<< 0, 0 >>)
    /\ manual[current] = [has |-> TRUE, ids |-> << 0, 0 >>]
    /\ \E q \in Planes : q # current /\ manual[q].has /\ manual[q].ids = << 1, 0 >>

\* C10: select_neurons("iscell") leaves as the current plane's selection the
\* ROI indices whose flag (column 0 of iscell.npy) is 1, ascending;
\* select_neurons("isnotcell") leaves all the other ROI indices of the plane.
IsSet(s) == { s[k] : k \in 1..Len(s) }
FlaggedCells(p) ==
    { i \in 0..(Len(IscellFile(plane_paths[p])) - 1) :
        IscellFile(plane_paths[p])[i + 1][1] = 1 }
C10_IscellAndComplement ==
    /\ Selected("iscell") =>
           /\ IsSet(selected_id[current]) = FlaggedCells(current)
           /\ \A j, k \in 1..Len(selected_id[current]) :
                  j < k => selected_id[current][j] < selected_id[current][k]
    /\ Selected("isnotcell") =>
           /\ IsSet(selected_id[current]) =
                  (0..(nrois_total(current) - 1)) \ FlaggedCells(current)
           /\ Len(selected_id[current]) = Cardinality(IsSet(selected_id[current]))

\* isnotcell selected on a plane with cells and non-cells, the other plane
\* holding its cells.
C10_Witness ==
    /\ Selected("isnotcell")
    /\ FlaggedCells(current) # {} /\ selected_id[current] # << >>
    /\ \E q \in Planes :
           /\ q # current /\ IsSet(selected_id[q]) = FlaggedCells(q)
           /\ Len(selected_id[q]) < nrois_total(q)

\* C11: select_neurons("iscell_p_larger_than", t) leaves as the current
\* plane's selection exactly the ROI indices whose probability (column 1 of
\* iscell.npy) is strictly greater than t, and "iscell_p_smaller_than"
\* exactly those strictly less than t, each index once; an ROI whose
\* probability equals t is in neither selection.
ProbabilityOf(p, i) == IscellFile(plane_paths[p])[i + 1][2]
ThresholdOfCall == call.arg[2][1]
C11_ThresholdsAreStrict ==
    /\ Selected("iscell_p_larger_than") =>
           /\ IsSet(selected_id[current]) =
                  { i \in 0..(nrois_total(current) - 1) :
                      ProbabilityOf(current, i) > ThresholdOfCall }
           /\ Len(selected_id[current]) = Cardinality(IsSet(selected_id[current]))
    /\ Selected("iscell_p_smaller_than") =>
           /\ IsSet(selected_id[current]) =
                  { i \in 0..(nrois_total(current) - 1) :
                      ProbabilityOf(current, i) < ThresholdOfCall }
           /\ Len(selected_id[current]) = Cardinality(IsSet(selected_id[current]))
    /\ (Selected("iscell_p_larger_than") \/ Selected("iscell_p_smaller_than")) =>
           \A i \in 0..(nrois_total(current) - 1) :
               ProbabilityOf(current, i) = ThresholdOfCall =>
                   i \notin IsSet(selected_id[current])

\* the larger-than selector applied with a threshold that one ROI of the
\* plane has as its probability: that ROI is left out, another is selected.
C11_Witness ==
    /\ Selected("iscell_p_larger_than")
    /\ \E i \in 0..(nrois_total(current) - 1) :
           ProbabilityOf(current, i) = ThresholdOfCall
    /\ selected_id[current] # << >>

\* C12: x and y return the stored column and row coordinates gathered at the
\* current plane's selection, one element per selected id in selection
\* order, duplicates kept; nrois returns the length of the current
\* selection, not the number of ROIs of the plane.
MedOf(p, id) == StatFile(plane_paths[p])[PyIndex(id, nrois_total(p)) + 1]
Returned(op) == call.op = op /\ ret.err = "none"
Count(row, v) == Cardinality({ t \in 1..Len(row) : row[t] = v })
SamePermuted(a, b) ==
    /\ Len(a) = Len(b)
    /\ \A t \in 1..Len(b) : Count(a, b[t]) = Count(b, b[t])
C13_ShuffledRowsArePermutations ==
    ( TraceCall /\ ret.err = "none" /\ shuffletraces = TRUE )
    => LET ids == selected_id[current]
           file == FileOf(call.op, current)
       IN  /\ Len(ret.val) = Len(ids)
           /\ \A i \in 1..Len(ids) :
                  SamePermuted(ret.val[i], file[PyIndex(ids[i], Len(file)) + 1])

\* A shuffled read of several rows, one of them out of the file's order and
\* one as in the file.
C13_Witness ==
    /\ TraceCall /\ ret.err = "none" /\ shuffletraces = TRUE
    /\ Len(ret.val) >= 2
    /\ LET file == FileOf(call.op, current)
       IN  /\ \E i \in 1..Len(ret.val) :
                  ret.val[i] # file[PyIndex(selected_id[current][i], Len(file)) + 1]
           /\ \E i \in 1..Len(ret.val) :
                  ret.val[i] = file[PyIndex(selected_id[current][i], Len(file)) + 1]

\* C14: when no plane directory was found (nplanes = 0), every accessor that
\* reads the current plane (image, aspect_ratio, neurons, nrois, x, y, F,
\* spikes) fails instead of returning a value.
PlaneAccessors ==
    { "image", "aspect_ratio", "neurons", "nrois", "x", "y", "F", "spikes" }
C14_NoPlaneNoValue ==
    ( nplanes = 0 /\ call.op \in PlaneAccessors ) => ret.err # "none"

\* C15: select_neurons called with a selector that is none of the four known
\* ones raises nothing and changes no plane's selection, nor the current
\* plane, the shuffle flag or either trace cache.
UnknownSelectorCalled ==
    /\ call'.op = "select_neurons"
    /\ call'.arg[1] \notin KnownSelectors
C15_UnknownSelectorIsNoOp ==
    [][ UnknownSelectorCalled =>
            /\ ret'.err = "none"
            /\ UNCHANGED << selected_id, plane, shuffletraces, Fcache, spikescache >>
      ]_vars

\* the unknown selector called with the shuffle flag set, on a plane whose
\* selection was set by hand and is still what it was set to, one of whose
\* caches is filled
C15_Witness ==
    /\ call.op = "select_neurons"
    /\ call.arg[1] \notin KnownSelectors
    /\ ret = None
    /\ ValidPlane
    /\ manual[current].has
    /\ selected_id[current] = manual[current].ids
    /\ Len(selected_id[current]) # nrois_total(current)
    /\ shuffletraces = TRUE
    /\ Fcache[current].loaded /\ ~spikescache[current].loaded

\* C16: select_neurons called with "iscell_p_larger_than" or
\* "iscell_p_smaller_than" and no threshold, on a dataset whose current plane
\* exists, fails with the error of an argument of the wrong kind (TypeError,
\* raised by the comparison with None) and changes no selection.
ThresholdForgotten ==
    /\ call'.op = "select_neurons"
    /\ call'.arg[1] \in SelectorsWithThreshold
    /\ call'.arg[2] = NoThreshold
C16_MissingThresholdRaises ==
    [][ ( ThresholdForgotten /\ ValidPlane ) =>
            /\ ret' = Raise("TypeError")
            /\ UNCHANGED selected_id
      ]_vars

\* the call without threshold refused on a plane whose selection was made by
\* hand and is still in place
C16_Witness ==
    /\ call.op = "select_neurons"
    /\ call.arg[1] \in SelectorsWithThreshold
    /\ call.arg[2] = NoThreshold
    /\ ret = Raise("TypeError")
    /\ ValidPlane
    /\ manual[current].has
    /\ selected_id[current] = manual[current].ids
    /\ Len(selected_id[current]) # nrois_total(current)

\* C17: after construction no entry of either cache is filled; afterwards
\* the F entry (the spikes entry) of a plane is filled exactly if F (spikes)
\* has been called while that plane was the current one: every such call
\* leaves it filled, whether or not it then returns rows; an entry gets
\* filled by no other step; and a filled entry stays filled.
FilledNow(cache, p) == cache[p].loaded
C17_CachesFillOnAccessOnly ==
    /\ \A p \in Planes : ~FilledNow(Fcache, p) /\ ~FilledNow(spikescache, p)
    /\ [][ /\ ( call'.op = "F" /\ ValidPlane ) => Fcache'[current].loaded
           /\ ( call'.op = "spikes" /\ ValidPlane ) => spikescache'[current].loaded
      ]_vars
    /\ [][ \A p \in Planes :
               /\ ( ~FilledNow(Fcache, p) /\ Fcache'[p].loaded )
                      => ( call'.op = "F" /\ ValidPlane /\ current = p )
               /\ ( ~FilledNow(spikescache, p) /\ spikescache'[p].loaded )
                      => ( call'.op = "spikes" /\ ValidPlane /\ current = p )
               /\ FilledNow(Fcache, p) => Fcache'[p].loaded
               /\ FilledNow(spikescache, p) => spikescache'[p].loaded
      ]_vars

\* F read on one plane only and spikes on none, some operations later: the
\* current plane is another one and both its entries are empty.
C17_Witness ==
    /\ ValidPlane
    /\ call.op \notin { "F", "spikes" }
    /\ ~Fcache[current].loaded /\ ~spikescache[current].loaded
    /\ \E q \in Planes :
           q # current /\ Fcache[q].loaded /\ ~spikescache[q].loaded

\* C18: selections are kept per plane: a step changes the selection of a
\* plane only if it is the neurons setter or select_neurons acting on that
\* plane as the current one; the plane setter changes no selection; and the
\* neurons getter returns the selection stored for the current plane, so
\* what was selected on a plane is read back there after work on another.
SelectionOps == { "neurons.setter", "select_neurons" }
C18_SelectionsArePerPlane ==
    /\ [][ \A p \in Planes :
               selected_id'[p] # selected_id[p]
                   => ( call'.op \in SelectionOps /\ ValidPlane /\ current = p )
         ]_vars
    /\ [][ call'.op = "plane.setter" => UNCHANGED selected_id ]_vars
    /\ []( Returned("neurons") => ret.val = selected_id[current] )

\* back on a plane whose cells were selected by flag, after a selection by
\* hand on another plane: the getter returns the cells
C18_Witness ==
    /\ Returned("neurons")
    /\ ret.val = SortedSeq(FlaggedCells(current))
    /\ Len(ret.val) < nrois_total(current)
    /\ \E q \in Planes :
           /\ q # current
           /\ manual[q].has /\ selected_id[q] = manual[q].ids
           /\ selected_id[q] # ret.val

\* C19: whatever order glob yields the plane directories in, image and
\* aspect_ratio called at plane index p return the options of the plane on
\* disk whose directory is plane_paths[p], the one the ROI, classification
\* and trace files used at p are read from.
OpsRecordOf(d) == OpsFile(d + 1)[d + 1]
C19_OptionsOfTheDirectoryInUse ==
    /\ ( Returned("image") /\ plane \in Planes )
           => ret.val = OpsRecordOf(plane_paths[plane]).meanImg
    /\ ( Returned("aspect_ratio") /\ plane \in Planes )
           => ret.val = OpsRecordOf(plane_paths[plane]).aspect

====
